---- MODULE Spec2Model ----
(***************************************************************************)
(* Model of backend/init_db.py: a one-shot script that loads a .env file,  *)
(* reads the PostgreSQL credentials from os.environ, validates them,       *)
(* connects, executes one CREATE TABLE IF NOT EXISTS statement, commits,   *)
(* closes the cursor and the connection and prints a confirmation.         *)
(*                                                                         *)
(* Every process running the script is a "run".  The runs share only the   *)
(* database (its committed catalog and one server-side transaction per     *)
(* connection).  An exception that nobody catches ends the process at the  *)
(* statement that raised it.                                               *)
(***************************************************************************)
EXTENDS Integers, Sequences, FiniteSets, TLC

\* Number of processes that run the script against the same database.
NumRuns == 2

Runs == 1..NumRuns

---------------------------------------------------------------------------
(* Environment variables                                                   *)

K_DB == "POSTGRES_DB"
K_USER == "POSTGRES_USER"
K_PASSWORD == "POSTGRES_PASSWORD"
K_HOST == "POSTGRES_HOST"
K_PORT == "POSTGRES_PORT"

Keys == {K_DB, K_USER, K_PASSWORD, K_HOST, K_PORT}

\* Python's None, the result of os.environ.get for a key that is not set.
None == "<None>"

DefaultHost == "localhost"

DefaultPort == 5432

\* The values a key takes in the process environment (when it is set).
EnvValues(k) ==
    CASE k = K_DB -> {"", "detect"}
      [] k = K_USER -> {"", "u"}
      [] k = K_PASSWORD -> {"", "p"}
      [] k = K_HOST -> {"db.internal"}
      [] k = K_PORT -> {"5433"}

\* The values a key takes in the .env file (when the file sets it).
FileValues(k) ==
    CASE k = K_DB -> {"", "detect_file"}
      [] k = K_USER -> {"", "u_file"}
      [] k = K_PASSWORD -> {"", "p_file"}
      [] k = K_HOST -> {"db.file"}
      [] k = K_PORT -> {"6543"}

\* All mappings from a subset of the keys to values, vals[k] those of key k.
Mappings(vals) ==
    LET all == UNION {vals[k] : k \in Keys}
    IN  UNION {{f \in [D -> all] : \A k \in D : f[k] \in vals[k]} : D \in SUBSET Keys}

AllEnvirons == Mappings([k \in Keys |-> EnvValues(k)])

AllDotenvs == Mappings([k \in Keys |-> FileValues(k)])

\* The environments of the runs that share a database: the credentials, the
\* host and the port are those of one deployment; a run has POSTGRES_DB in its
\* process environment or not.
SmallEnvirons ==
    {e \in AllEnvirons :
        /\ K_USER \in DOMAIN e /\ e[K_USER] = "u"
        /\ K_PASSWORD \in DOMAIN e /\ e[K_PASSWORD] = "p"
        /\ K_HOST \notin DOMAIN e
        /\ K_PORT \notin DOMAIN e
        /\ (K_DB \in DOMAIN e => e[K_DB] = "detect")}

\* The .env files of that deployment: none, or one that sets POSTGRES_DB.
SmallDotenvs == {f \in AllDotenvs : DOMAIN f \subseteq {K_DB} /\ (K_DB \in DOMAIN f => f[K_DB] # "")}

---------------------------------------------------------------------------
(* The database: tables, the statement of the script                       *)

Col(n, t, c) == [name |-> n, type |-> t, constraint |-> c]

\* The columns of the statement of cursor.execute.
PredictionsColumns ==
    << Col("id", "SERIAL", "PRIMARY KEY"),
       Col("prediction_id", "UUID", "NOT NULL"),
       Col("image_path", "TEXT", ""),
       Col("class_name", "TEXT", ""),
       Col("confidence", "FLOAT", ""),
       Col("bbox_left", "INT", ""),
       Col("bbox_top", "INT", ""),
       Col("bbox_width", "INT", ""),
       Col("bbox_height", "INT", ""),
       Col("created_at", "TIMESTAMP", "DEFAULT NOW()") >>

\* The statement without IF NOT EXISTS.
PredictionsDDLNoGuard ==
    [ifNotExists |-> FALSE, name |-> "predictions", columns |-> PredictionsColumns]

\* The statement with UNIQUE added to prediction_id.
PredictionsDDLUniqueId ==
    [ifNotExists |-> TRUE,
     name |-> "predictions",
     columns |-> [PredictionsColumns EXCEPT ![2] = Col("prediction_id", "UUID", "NOT NULL UNIQUE")]]

\* The statement of cursor.execute.
PredictionsDDL ==
    [ifNotExists |-> TRUE, name |-> "predictions", columns |-> PredictionsColumns]

Table(n, cols, rows) == [name |-> n, columns |-> cols, rows |-> rows]

\* A predictions table of another shape, made by something else.
LegacyColumns == << Col("id", "INT", ""), Col("label", "TEXT", "") >>

\* The catalogs a run may find: no table, the table of the statement with
\* rows in it, a table of the same name and another shape with a row in it.
InitialCatalogs ==
    { << >>,
      << Table("predictions", PredictionsColumns, {"row1", "row2"}) >>,
      << Table("predictions", LegacyColumns, {"row1"}) >> }

HasTable(tables, n) == \E i \in 1..Len(tables) : tables[i].name = n

CountTable(tables, n) == Cardinality({i \in 1..Len(tables) : tables[i].name = n})

NoTxn == [created |-> << >>]

---------------------------------------------------------------------------
(* State                                                                   *)

VARIABLES
    pc,            \* pc[r]: where run r stands in the script
    environ,       \* environ[r]: os.environ of the process of run r
    dotenv,        \* the contents of the .env file load_dotenv finds
    catalog,       \* the committed tables of the database
    txn,           \* txn[r]: the open transaction of the connection of run r
    engineAtomic,  \* whether the engine serialises concurrent CREATE TABLE IF NOT EXISTS
    connects,      \* connects[r]: the arguments of every psycopg2.connect call of run r
    calls,         \* calls[r]: every driver call and print of run r, with its outcome
    visited,       \* visited[r]: the positions run r went through
    connOpen,      \* connOpen[r]: run r holds a connection it has not closed
    cursorOpen,    \* cursorOpen[r]: run r holds a cursor it has not closed
    stdout,        \* stdout[r]: the lines run r printed
    exit,          \* exit[r]: << >> while running, then the exit status
    error,         \* error[r]: the exception that ended run r, "" if none
    before,        \* before[r]: the catalog when run r started
    after          \* after[r]: the catalog when run r ended

vars == << pc, environ, dotenv, catalog, txn, engineAtomic, connects, calls, visited,
           connOpen, cursorOpen, stdout, exit, error, before, after >>

ExitSuccess == 0

ExitFailure == 1

SuccessMessage == "Database initialized successfully."

Terminal(r) == pc[r] \in {"DONE", "FAILED"}

---------------------------------------------------------------------------
(* Lines 5-17: configuration                                               *)

\* load_dotenv(): a key of the file is set in os.environ unless the process
\* environment already has it (override is False by default).
LoadedEnviron(env, file) ==
    [k \in DOMAIN env \cup DOMAIN file |-> IF k \in DOMAIN env THEN env[k] ELSE file[k]]

\* os.environ.get(key) where the script has os.environ.get(key, default).
GetDroppingDefault(env, k, default) == IF k \in DOMAIN env THEN env[k] ELSE None

\* os.environ.get(key, default)
Get(env, k, default) == IF k \in DOMAIN env THEN env[k] ELSE default

\* Lines 9-12: dbname, user, password, host.
FetchConfig(env) ==
    [dbname |-> Get(env, K_DB, None),
     user |-> Get(env, K_USER, None),
     password |-> Get(env, K_PASSWORD, None),
     host |-> Get(env, K_HOST, DefaultHost)]

\* Line 13: port, the integer 5432 unless the environment gives a string.
FetchPort(env) == IF K_PORT \in DOMAIN env THEN << "str", env[K_PORT] >> ELSE << "int", DefaultPort >>

\* Python's truth value of a string or None.
Falsy(x) == x = None \/ x = ""

\* "is None" tests where the script has truth tests: an empty string passes.
CredentialsMissingIsNone(cfg) == cfg.dbname = None \/ cfg.user = None \/ cfg.password = None

\* Line 16: not dbname or not user or not password
CredentialsMissing(cfg) == Falsy(cfg.dbname) \/ Falsy(cfg.user) \/ Falsy(cfg.password)

\* Lines 20-26: the keyword arguments of psycopg2.connect.
ConnectArgs(env) ==
    LET cfg == FetchConfig(env)
    IN  [dbname |-> cfg.dbname, user |-> cfg.user, password |-> cfg.password,
         host |-> cfg.host, port |-> FetchPort(env)]

---------------------------------------------------------------------------
(* The engine, as the statements of the script use it                      *)

\* What the connection of run r sees: the committed tables and its own.
Visible(r) == catalog \o txn[r].created

PendingElsewhere(r, n) == \E o \in Runs \ {r} : HasTable(txn[o].created, n)

\* A serialising engine makes the statement wait while another transaction
\* holds an uncommitted table of the same name.
LockWait(r, ddl) ==
    engineAtomic /\ ~HasTable(Visible(r), ddl.name) /\ PendingElsewhere(r, ddl.name)

\* The statement creating the table whether or not one exists.
EngineExecuteAlwaysCreate(r, ddl, denied) ==
    IF denied
    THEN [ok |-> FALSE, err |-> "InsufficientPrivilege", created |-> txn[r].created]
    ELSE [ok |-> TRUE, err |-> "",
          created |-> Append(txn[r].created, Table(ddl.name, ddl.columns, {}))]

\* CREATE TABLE [IF NOT EXISTS]: the tables the transaction has created
\* after the statement, or the error it raises.
EngineExecute(r, ddl, denied) ==
    IF denied
    THEN [ok |-> FALSE, err |-> "InsufficientPrivilege", created |-> txn[r].created]
    ELSE IF HasTable(Visible(r), ddl.name)
    THEN IF ddl.ifNotExists
         THEN [ok |-> TRUE, err |-> "", created |-> txn[r].created]
         ELSE [ok |-> FALSE, err |-> "DuplicateTable", created |-> txn[r].created]
    ELSE [ok |-> TRUE, err |-> "",
          created |-> Append(txn[r].created, Table(ddl.name, ddl.columns, {}))]

\* COMMIT: the created tables become visible to all, unless the connection
\* is lost or another transaction committed a table of the same name first.
EngineCommit(r, lost) ==
    IF lost
    THEN [ok |-> FALSE, err |-> "OperationalError", catalog |-> catalog]
    ELSE IF \E i \in 1..Len(txn[r].created) : HasTable(catalog, txn[r].created[i].name)
    THEN [ok |-> FALSE, err |-> "UniqueViolation", catalog |-> catalog]
    ELSE [ok |-> TRUE, err |-> "", catalog |-> catalog \o txn[r].created]

---------------------------------------------------------------------------
(* The script, statement by statement                                      *)

Call(op, ok, err) == [op |-> op, ok |-> ok, err |-> err]

\* The position, the record of positions and of calls after a statement
\* that returned.
Advance(r, to, op) ==
    /\ pc' = [pc EXCEPT ![r] = to]
    /\ visited' = [visited EXCEPT ![r] = Append(@, to)]
    /\ calls' = [calls EXCEPT ![r] = Append(@, Call(op, TRUE, ""))]

\* An exception that is caught and the call tried again.
RaiseThenRetry(r, op, err) ==
    /\ calls' = [calls EXCEPT ![r] = Append(@, Call(op, FALSE, err))]
    /\ error' = [error EXCEPT ![r] = err]
    /\ UNCHANGED << pc, visited, exit, txn, after >>

\* An exception that ends the run while its transaction stays open on the
\* server.
RaiseKeepingTxn(r, op, err) ==
    /\ pc' = [pc EXCEPT ![r] = "FAILED"]
    /\ visited' = [visited EXCEPT ![r] = Append(@, "FAILED")]
    /\ calls' = [calls EXCEPT ![r] = Append(@, Call(op, FALSE, err))]
    /\ error' = [error EXCEPT ![r] = err]
    /\ exit' = [exit EXCEPT ![r] = << 1 >>]
    /\ after' = [after EXCEPT ![r] = catalog]
    /\ UNCHANGED txn

\* An exception raised by call op and caught by nobody: the traceback is
\* printed to stderr and the process exits with status 1, without running
\* any later statement.  The server ends the session of a client that went
\* away and rolls its transaction back.
Raise(r, op, err) ==
    /\ pc' = [pc EXCEPT ![r] = "FAILED"]
    /\ visited' = [visited EXCEPT ![r] = Append(@, "FAILED")]
    /\ calls' = [calls EXCEPT ![r] = Append(@, Call(op, FALSE, err))]
    /\ error' = [error EXCEPT ![r] = err]
    /\ exit' = [exit EXCEPT ![r] = << ExitFailure >>]
    /\ txn' = [txn EXCEPT ![r] = NoTxn]
    /\ after' = [after EXCEPT ![r] = catalog]

\* Line 6: load_dotenv()
LoadDotenv(r) ==
    /\ pc[r] = "START"
    /\ environ' = [environ EXCEPT ![r] = LoadedEnviron(@, dotenv)]
    /\ before' = [before EXCEPT ![r] = catalog]
    /\ pc' = [pc EXCEPT ![r] = "LOADED"]
    /\ visited' = [visited EXCEPT ![r] = Append(@, "LOADED")]
    /\ UNCHANGED << dotenv, catalog, txn, engineAtomic, connects, calls, connOpen,
                    cursorOpen, stdout, exit, error, after >>

\* Lines 9-17: fetch the credentials and validate them.
Validate(r) ==
    /\ pc[r] = "LOADED"
    /\ IF CredentialsMissing(FetchConfig(environ[r]))
       THEN /\ pc' = [pc EXCEPT ![r] = "FAILED"]
            /\ visited' = [visited EXCEPT ![r] = Append(@, "FAILED")]
            /\ error' = [error EXCEPT ![r] = "ValueError"]
            /\ exit' = [exit EXCEPT ![r] = << ExitFailure >>]
            /\ after' = [after EXCEPT ![r] = catalog]
       ELSE /\ pc' = [pc EXCEPT ![r] = "VALIDATED"]
            /\ visited' = [visited EXCEPT ![r] = Append(@, "VALIDATED")]
            /\ UNCHANGED << error, exit, after >>
    /\ UNCHANGED << environ, dotenv, catalog, txn, engineAtomic, connects, calls,
                    connOpen, cursorOpen, stdout, before >>

\* Lines 20-26: conn = psycopg2.connect(...)
Connect(r) ==
    /\ pc[r] = "VALIDATED"
    /\ connects' = [connects EXCEPT ![r] = Append(@, ConnectArgs(environ[r]))]
    /\ \E reachable \in BOOLEAN :
          IF reachable
          THEN /\ Advance(r, "CONNECTED", "connect")
               /\ connOpen' = [connOpen EXCEPT ![r] = TRUE]
               /\ txn' = [txn EXCEPT ![r] = NoTxn]
               /\ UNCHANGED << error, exit, after >>
          ELSE /\ Raise(r, "connect", "OperationalError")
               /\ UNCHANGED connOpen
    /\ UNCHANGED << environ, dotenv, catalog, engineAtomic, cursorOpen, stdout, before >>

\* Line 28: cursor = conn.cursor()
OpenCursor(r) ==
    /\ pc[r] = "CONNECTED"
    /\ \E ok \in BOOLEAN :
          IF ok
          THEN /\ Advance(r, "CURSOR_OPEN", "cursor")
               /\ cursorOpen' = [cursorOpen EXCEPT ![r] = TRUE]
               /\ UNCHANGED << error, exit, after, txn >>
          ELSE /\ Raise(r, "cursor", "InterfaceError")
               /\ UNCHANGED cursorOpen
    /\ UNCHANGED << environ, dotenv, catalog, engineAtomic, connects, connOpen, stdout,
                    before >>

\* The statement on a connection in autocommit mode: what it creates is
\* committed at once.
ExecuteAutocommit(r) ==
    /\ pc[r] = "CURSOR_OPEN"
    /\ ~LockWait(r, PredictionsDDL)
    /\ \E denied \in BOOLEAN :
          LET res == EngineExecute(r, PredictionsDDL, denied)
          IN  IF res.ok
              THEN /\ Advance(r, "SCHEMA_APPLIED", "execute")
                   /\ catalog' = catalog \o res.created
                   /\ UNCHANGED << error, exit, after, txn >>
              ELSE /\ Raise(r, "execute", res.err)
                   /\ UNCHANGED catalog
    /\ UNCHANGED << environ, dotenv, engineAtomic, connects, connOpen,
                    cursorOpen, stdout, before >>

\* Lines 31-44: cursor.execute(CREATE TABLE IF NOT EXISTS predictions ...)
Execute(r) ==
    /\ pc[r] = "CURSOR_OPEN"
    /\ ~LockWait(r, PredictionsDDL)
    /\ \E denied \in BOOLEAN :
          LET res == EngineExecute(r, PredictionsDDL, denied)
          IN  IF res.ok
              THEN /\ Advance(r, "SCHEMA_APPLIED", "execute")
                   /\ txn' = [txn EXCEPT ![r] = [created |-> res.created]]
                   /\ UNCHANGED << error, exit, after >>
              ELSE Raise(r, "execute", res.err)
    /\ UNCHANGED << environ, dotenv, catalog, engineAtomic, connects, connOpen,
                    cursorOpen, stdout, before >>

\* Line 47: conn.commit()
Commit(r) ==
    /\ pc[r] = "SCHEMA_APPLIED"
    /\ \E lost \in BOOLEAN :
          LET res == EngineCommit(r, lost)
          IN  IF res.ok
              THEN /\ Advance(r, "COMMITTED", "commit")
                   /\ catalog' = res.catalog
                   /\ txn' = [txn EXCEPT ![r] = NoTxn]
                   /\ UNCHANGED << error, exit, after >>
              ELSE /\ Raise(r, "commit", res.err)
                   /\ UNCHANGED catalog
    /\ UNCHANGED << environ, dotenv, engineAtomic, connects, connOpen, cursorOpen,
                    stdout, before >>

\* Line 48: cursor.close()
CloseCursor(r) ==
    /\ pc[r] = "COMMITTED"
    /\ \E ok \in BOOLEAN :
          IF ok
          THEN /\ Advance(r, "CURSOR_CLOSED", "cursor.close")
               /\ cursorOpen' = [cursorOpen EXCEPT ![r] = FALSE]
               /\ UNCHANGED << error, exit, after, txn >>
          ELSE /\ Raise(r, "cursor.close", "InterfaceError")
               /\ UNCHANGED cursorOpen
    /\ UNCHANGED << environ, dotenv, catalog, engineAtomic, connects, connOpen, stdout,
                    before >>

\* Line 49: conn.close()
CloseConn(r) ==
    /\ pc[r] = "CURSOR_CLOSED"
    /\ \E ok \in BOOLEAN :
          IF ok
          THEN /\ Advance(r, "CONN_CLOSED", "conn.close")
               /\ connOpen' = [connOpen EXCEPT ![r] = FALSE]
               /\ UNCHANGED << error, exit, after, txn >>
          ELSE /\ Raise(r, "conn.close", "InterfaceError")
               /\ UNCHANGED connOpen
    /\ UNCHANGED << environ, dotenv, catalog, engineAtomic, connects, cursorOpen, stdout,
                    before >>

\* The confirmation printed right after the commit, the script ending there.
ReportBeforeRelease(r) ==
    /\ pc[r] = "COMMITTED"
    /\ Advance(r, "DONE", "print")
    /\ stdout' = [stdout EXCEPT ![r] = Append(@, SuccessMessage)]
    /\ exit' = [exit EXCEPT ![r] = << 0 >>]
    /\ after' = [after EXCEPT ![r] = catalog]
    /\ UNCHANGED << environ, dotenv, catalog, txn, engineAtomic, connects, connOpen,
                    cursorOpen, error, before >>

\* Line 51: print("Database initialized successfully."), then the script ends.
Report(r) ==
    /\ pc[r] = "CONN_CLOSED"
    /\ Advance(r, "DONE", "print")
    /\ stdout' = [stdout EXCEPT ![r] = Append(@, SuccessMessage)]
    /\ exit' = [exit EXCEPT ![r] = << ExitSuccess >>]
    /\ after' = [after EXCEPT ![r] = catalog]
    /\ UNCHANGED << environ, dotenv, catalog, txn, engineAtomic, connects, connOpen,
                    cursorOpen, error, before >>

---------------------------------------------------------------------------
(* Specifications                                                          *)

InitRun ==
    /\ pc = [r \in Runs |-> "START"]
    /\ txn = [r \in Runs |-> NoTxn]
    /\ connects = [r \in Runs |-> << >>]
    /\ calls = [r \in Runs |-> << >>]
    /\ visited = [r \in Runs |-> << "START" >>]
    /\ connOpen = [r \in Runs |-> FALSE]
    /\ cursorOpen = [r \in Runs |-> FALSE]
    /\ stdout = [r \in Runs |-> << >>]
    /\ exit = [r \in Runs |-> << >>]
    /\ error = [r \in Runs |-> ""]
    /\ before = [r \in Runs |-> << >>]
    /\ after = [r \in Runs |-> << >>]

\* Runs in any interleaving against one database.
Init ==
    /\ InitRun
    /\ environ \in [Runs -> SmallEnvirons]
    /\ dotenv \in SmallDotenvs
    /\ catalog \in InitialCatalogs
    /\ engineAtomic \in BOOLEAN

Next ==
    \E r \in Runs :
        \/ LoadDotenv(r)
        \/ Validate(r)
        \/ Connect(r)
        \/ OpenCursor(r)
        \/ Execute(r)
        \/ Commit(r)
        \/ CloseCursor(r)
        \/ CloseConn(r)
        \/ Report(r)

Spec == Init /\ [][Next]_vars

\* Runs in succession: a run starts when no other run is under way.
Quiet(r) == \A o \in Runs \ {r} : pc[o] = "START" \/ Terminal(o)

NextSeq ==
    \E r \in Runs :
        /\ Quiet(r)
        /\ \/ LoadDotenv(r)
           \/ Validate(r)
           \/ Connect(r)
           \/ OpenCursor(r)
           \/ Execute(r)
           \/ Commit(r)
           \/ CloseCursor(r)
           \/ CloseConn(r)
           \/ Report(r)

SpecSeq == Init /\ [][NextSeq]_vars

\* One run, under every process environment and every .env file.
InitEnv ==
    /\ InitRun
    /\ environ \in {e \in [Runs -> AllEnvirons] : \A r \in Runs \ {1} : e[r] = e[1]}
    /\ dotenv \in AllDotenvs
    /\ catalog = << >>
    /\ engineAtomic = TRUE

NextEnv ==
    \/ LoadDotenv(1)
    \/ Validate(1)
    \/ Connect(1)
    \/ OpenCursor(1)
    \/ Execute(1)
    \/ Commit(1)
    \/ CloseCursor(1)
    \/ CloseConn(1)
    \/ Report(1)

SpecEnv == InitEnv /\ [][NextEnv]_vars

---------------------------------------------------------------------------
(* Properties                                                              *)

AbsentOrEmpty(env, k) == k \notin DOMAIN env \/ env[k] = ""

Required == {K_DB, K_USER, K_PASSWORD}

\* The driver calls of run r named op.
CallsOf(r, op) == SelectSeq(calls[r], LAMBDA c : c.op = op)

\* C1: once the environment is loaded, a run whose environment lacks one of
\* POSTGRES_DB, POSTGRES_USER, POSTGRES_PASSWORD, or has it empty, makes no
\* connection attempt, no driver call and no output; its only step is the
\* validation, which ends it FAILED with a ValueError and a failure status.
C1_MissingCredentialFailsBeforeConnect ==
    \A r \in Runs :
        (pc[r] # "START" /\ \E k \in Required : AbsentOrEmpty(environ[r], k))
        => /\ pc[r] \in {"LOADED", "FAILED"}
           /\ Len(connects[r]) = 0
           /\ calls[r] = << >>
           /\ stdout[r] = << >>
           /\ ~connOpen[r] /\ ~cursorOpen[r]
           /\ catalog = before[r]
           /\ (pc[r] = "LOADED" => ENABLED Validate(r))
           /\ (pc[r] = "FAILED" => error[r] = "ValueError" /\ exit[r] = << ExitFailure >>)

\* A run ended by the validation because its password is the empty string.
C1_Witness ==
    \E r \in Runs :
        /\ pc[r] = "FAILED"
        /\ K_PASSWORD \in DOMAIN environ[r] /\ environ[r][K_PASSWORD] = ""
        /\ ~AbsentOrEmpty(environ[r], K_DB) /\ ~AbsentOrEmpty(environ[r], K_USER)

\* C7: every connect call gets host "localhost" when POSTGRES_HOST is unset
\* and the integer 5432 as port when POSTGRES_PORT is unset, the value of the
\* environment otherwise, and the values of POSTGRES_DB, POSTGRES_USER and
\* POSTGRES_PASSWORD as dbname, user and password.
C7_ConnectArguments ==
    \A r \in Runs : \A i \in 1..Len(connects[r]) :
        LET a == connects[r][i]
            e == environ[r]
        IN  /\ Required \subseteq DOMAIN e
            /\ a.dbname = e[K_DB] /\ a.user = e[K_USER] /\ a.password = e[K_PASSWORD]
            /\ a.host = (IF K_HOST \in DOMAIN e THEN e[K_HOST] ELSE "localhost")
            /\ a.port = (IF K_PORT \in DOMAIN e THEN << "str", e[K_PORT] >> ELSE << "int", 5432 >>)

\* A connect call of a run with neither POSTGRES_HOST nor POSTGRES_PORT set.
C7_Witness ==
    \E r \in Runs :
        /\ Len(connects[r]) = 1
        /\ K_HOST \notin DOMAIN environ[r] /\ K_PORT \notin DOMAIN environ[r]
        /\ connects[r][1].host = "localhost"


---------------------------------------------------------------------------
(* Properties of the runs against the database                             *)

ValidCredentials(r) == \A k \in Required : ~AbsentOrEmpty(environ[r], k)

Ops(r) == [i \in 1..Len(calls[r]) |-> calls[r][i].op]

Succeeded(r, op) == \E i \in 1..Len(calls[r]) : calls[r][i].op = op /\ calls[r][i].ok

FailedIn(r, op) == \E i \in 1..Len(calls[r]) : calls[r][i].op = op /\ ~calls[r][i].ok

\* The errors whose cause lies outside the script and the state of the
\* schema: the server cannot be reached or drops the connection, the user
\* may not create tables, the driver's handle is unusable.
OutsideFaults == {"OperationalError", "InsufficientPrivilege", "InterfaceError"}

\* Run r was ended by such an error.
EndedByOutsideFault(r) ==
    /\ pc[r] = "FAILED"
    /\ Len(calls[r]) > 0
    /\ ~calls[r][Len(calls[r])].ok
    /\ calls[r][Len(calls[r])].err \in OutsideFaults

\* C2 (as claimed): a run that acquired a connection never ends, DONE or
\* FAILED, with its cursor or its connection still open.
C2_ReleasedOnEveryExit ==
    \A r \in Runs :
        (Terminal(r) /\ Succeeded(r, "connect")) => ~cursorOpen[r] /\ ~connOpen[r]

\* The states of the state machine of the specification, among the positions.
MachineStates == {"START", "VALIDATED", "CONNECTED", "SCHEMA_APPLIED", "COMMITTED", "DONE", "FAILED"}

\* C4: a run that is DONE went through START, VALIDATED, CONNECTED,
\* SCHEMA_APPLIED, COMMITTED, DONE in that order; it made one connect, one
\* execute and one commit, then closed the cursor, then the connection, and
\* printed the confirmation last and once.
C4_SuccessfulRunOrder ==
    \A r \in Runs :
        pc[r] = "DONE"
        => /\ SelectSeq(visited[r], LAMBDA p : p \in MachineStates)
                = << "START", "VALIDATED", "CONNECTED", "SCHEMA_APPLIED", "COMMITTED", "DONE" >>
           /\ Ops(r) = << "connect", "cursor", "execute", "commit", "cursor.close",
                          "conn.close", "print" >>
           /\ \A i \in 1..Len(calls[r]) : calls[r][i].ok
           /\ Len(connects[r]) = 1
           /\ stdout[r] = << SuccessMessage >>
           /\ ~cursorOpen[r] /\ ~connOpen[r]

\* A run that created the table and is DONE.
C4_Witness ==
    \E r \in Runs :
        /\ pc[r] = "DONE"
        /\ ~HasTable(before[r], "predictions")
        /\ HasTable(after[r], "predictions")

\* Validation, connect, execute, commit and both releases succeeded.
AllStepsSucceeded(r) ==
    /\ \E i \in 1..Len(visited[r]) : visited[r][i] = "VALIDATED"
    /\ \A op \in {"connect", "execute", "commit", "cursor.close", "conn.close"} :
          Succeeded(r, op)

\* C5: the confirmation is printed, and the exit status is 0, exactly when
\* validation, connect, execute, commit and both releases succeeded.  A call
\* that fails is the last call of its run, which is then FAILED with status 1
\* and no output; no call is made twice.
C5_SuccessIffAllStepsSucceeded ==
    \A r \in Runs :
        /\ (stdout[r] # << >>) <=> (exit[r] = << 0 >>)
        /\ (exit[r] = << 0 >>) <=> (pc[r] = "DONE")
        /\ stdout[r] \in {<< >>, << SuccessMessage >>}
        /\ Terminal(r) => ((exit[r] = << 0 >>) <=> AllStepsSucceeded(r))
        /\ pc[r] = "FAILED" => exit[r] = << 1 >> /\ stdout[r] = << >> /\ error[r] # ""
        /\ \A i \in 1..Len(calls[r]) :
              ~calls[r][i].ok => i = Len(calls[r]) /\ pc[r] = "FAILED"
        /\ \A i, j \in 1..Len(calls[r]) : calls[r][i].op = calls[r][j].op => i = j
        /\ (error[r] = "ValueError" => calls[r] = << >> /\ pc[r] = "FAILED")

\* A run whose commit failed: execute had succeeded, nothing follows.
C5_Witness ==
    \E r \in Runs :
        /\ pc[r] = "FAILED"
        /\ Ops(r) = << "connect", "cursor", "execute", "commit" >>
        /\ exit[r] = << 1 >>

\* C6: when a predictions table exists as a run starts, the catalog (the
\* table's columns, types and rows) stays as it was; and the run, given valid
\* credentials, ends DONE with status 0 unless a fault from outside ends it.
C6_ExistingTableUntouched ==
    \A r \in Runs :
        (pc[r] # "START" /\ HasTable(before[r], "predictions"))
        => /\ catalog = before[r]
           /\ (Terminal(r) /\ ValidCredentials(r))
              => \/ pc[r] = "DONE" /\ exit[r] = << 0 >> /\ after[r] = before[r]
                 \/ EndedByOutsideFault(r)

\* A run that is DONE over a table of another shape that holds a row.
C6_Witness ==
    \E r \in Runs :
        /\ pc[r] = "DONE"
        /\ before[r] = << Table("predictions", LegacyColumns, {"row1"}) >>
        /\ catalog = before[r]

\* The type of the data model that a column type of the statement denotes.
DataModelType(sqlType) ==
    CASE sqlType = "SERIAL" -> "integer, auto-incrementing"
      [] sqlType = "INT" -> "integer"
      [] sqlType = "UUID" -> "uuid"
      [] sqlType = "TEXT" -> "text"
      [] sqlType = "FLOAT" -> "floating point"
      [] sqlType = "TIMESTAMP" -> "timestamp"

\* The data model: column, type, constraint.
DataModel ==
    << << "id", "integer, auto-incrementing", "PRIMARY KEY" >>,
       << "prediction_id", "uuid", "NOT NULL" >>,
       << "image_path", "text", "" >>,
       << "class_name", "text", "" >>,
       << "confidence", "floating point", "" >>,
       << "bbox_left", "integer", "" >>,
       << "bbox_top", "integer", "" >>,
       << "bbox_width", "integer", "" >>,
       << "bbox_height", "integer", "" >>,
       << "created_at", "timestamp", "DEFAULT NOW()" >> >>

\* C8: after a run that is DONE and started without a predictions table, the
\* catalog has one table named predictions, of the 10 columns of the data
\* model in order, each of the model's type, id the only key and nothing
\* unique on prediction_id.
C8_TableShape ==
    \A r \in Runs :
        (pc[r] = "DONE" /\ ~HasTable(before[r], "predictions"))
        => /\ CountTable(catalog, "predictions") = 1
           /\ \A i \in 1..Len(catalog) :
                 catalog[i].name = "predictions"
                 => /\ Len(catalog[i].columns) = 10
                    /\ \A j \in 1..10 :
                          << catalog[i].columns[j].name,
                             DataModelType(catalog[i].columns[j].type),
                             catalog[i].columns[j].constraint >> = DataModel[j]

\* A run that started on an empty catalog and is DONE.
C8_Witness ==
    \E r \in Runs :
        /\ pc[r] = "DONE"
        /\ before[r] = << >>
        /\ Len(catalog) = 1

\* C10: on an engine that serialises the statement, in every interleaving, a
\* run with valid credentials fails only by a fault from outside, the catalog
\* never has two predictions tables and has one once a run is DONE, and a run
\* that is not ended can always take a step or wait for one that can; each
\* step changes the state of one run only, besides the database.
C10_Safe ==
    engineAtomic
    => /\ \A r \in Runs :
             (Terminal(r) /\ ValidCredentials(r)) => pc[r] = "DONE" \/ EndedByOutsideFault(r)
       /\ CountTable(catalog, "predictions") <= 1
       /\ ((\E r \in Runs : pc[r] = "DONE") => CountTable(catalog, "predictions") = 1)
       /\ ((\A r \in Runs : Terminal(r)) \/ ENABLED Next)

\* What belongs to run r alone.
Local(r) ==
    << pc[r], environ[r], connects[r], calls[r], visited[r], connOpen[r], cursorOpen[r],
       stdout[r], exit[r], error[r], before[r], after[r], txn[r] >>

\* A step leaves what belongs to all runs but one as it was.
C10_OneRunPerStep ==
    \E r \in Runs : \A o \in Runs \ {r} : Local(o)' = Local(o)

\* C10, whole: the state property above in every reachable state, and every
\* step a step of one run.
C10_ConcurrentRunsSafe == [](C10_Safe) /\ [][C10_OneRunPerStep]_vars

\* Two runs that both started on an empty catalog, so that the second
\* started before the first committed, and are both DONE.
C10_Witness ==
    /\ engineAtomic
    /\ \E r1, r2 \in Runs :
          /\ r1 # r2
          /\ pc[r1] = "DONE" /\ pc[r2] = "DONE"
          /\ before[r1] = << >> /\ before[r2] = << >>
          /\ CountTable(catalog, "predictions") = 1

\* C3: with runs in succession, a run with valid credentials fails only by a
\* fault from outside, never because the table exists; and any two runs that
\* are DONE left the same catalog, with one predictions table.
C3_Idempotent ==
    /\ \A r \in Runs :
          (Terminal(r) /\ ValidCredentials(r)) => pc[r] = "DONE" \/ EndedByOutsideFault(r)
    /\ \A r1, r2 \in Runs :
          (pc[r1] = "DONE" /\ pc[r2] = "DONE")
          => after[r1] = after[r2] /\ CountTable(after[r2], "predictions") = 1

\* A first run that created the table and a second run, started on what the
\* first left, that is DONE too.
C3_Witness ==
    \E r1, r2 \in Runs :
        /\ r1 # r2
        /\ pc[r1] = "DONE" /\ pc[r2] = "DONE"
        /\ before[r1] = << >>
        /\ before[r2] = after[r1]
        /\ HasTable(before[r2], "predictions")

\* C9: a run whose connect or execute failed made no commit and left the
\* catalog as it found it; the catalog differs from what a run found only if
\* the run reached COMMITTED.
C9_NoCommitAfterFailure ==
    \A r \in Runs :
        /\ (FailedIn(r, "connect") \/ FailedIn(r, "execute"))
           => /\ Len(CallsOf(r, "commit")) = 0
              /\ Terminal(r) /\ after[r] = before[r]
        /\ (pc[r] # "START" /\ (IF Terminal(r) THEN after[r] ELSE catalog) # before[r])
           => \E i \in 1..Len(visited[r]) : visited[r][i] = "COMMITTED"

\* A run whose execute was refused on a catalog without the table.
C9_Witness ==
    \E r \in Runs :
        /\ FailedIn(r, "execute")
        /\ before[r] = << >>
        /\ after[r] = << >>
        /\ pc[r] = "FAILED"

====
